---- MODULE Spec2Model ----
(***************************************************************************)
(* Model of jupyter_ai/history.py: BoundedChatHistory (the bounded store   *)
(* with selective and full clear) and WrappedBoundedChatHistory (the       *)
(* per-turn wrapper that only appends while its human message is live),    *)
(* and YChatHistory (the read-only window over a YChat document).          *)
(***************************************************************************)
EXTENDS Integers, Sequences, FiniteSets, TLC

\* ---------------------------------------------------------------- bounds
NumTurns == 2        \* human messages (turns) that may be submitted
MaxTime  == 3        \* largest clock reading
MaxLog   == 3        \* largest length of _all_messages
MaxK     == 1        \* largest finite window size k
MaxYLog  == 4        \* largest number of messages in the YChat document

\* ------------------------------------------------------------- constants
KNone == -1          \* k = None: the window is unbounded
NoId  == 0           \* HUMAN_MSG_ID_KEY absent from additional_kwargs

Ids   == 1..NumTurns
Roles == {"human", "ai"}

\* A message: its type (HumanMessage / AIMessage) and the value stored
\* under HUMAN_MSG_ID_KEY in additional_kwargs (NoId when the key is absent).
Message == [role : Roles, kw : Ids \cup {NoId}]

\* The argument of clear: given = FALSE is None / omitted, otherwise the
\* list of human message ids (only membership in it is ever used).
ClearArgs ==
    {[given |-> FALSE, ids |-> {}]} \cup [given : {TRUE}, ids : SUBSET Ids]

VARIABLES
    ychat,         \* YChatHistory.ychat: the messages of the YChat document
    k,             \* BoundedChatHistory.k, YChatHistory.k
    clear_time,    \* BoundedChatHistory.clear_time
    cleared_msgs,  \* BoundedChatHistory.cleared_msgs
    all_messages,  \* BoundedChatHistory._all_messages
    now,           \* the reading time.time() returns
    turn_time,     \* HumanChatMessage.time per id, 0 while not yet submitted
    last           \* the call made last and how it ended

vars == <<ychat, k, clear_time, cleared_msgs, all_messages, now, turn_time, last>>

Call(op, t, ret) == [op |-> op, turn |-> t, ret |-> ret]

\* ------------------------------------------------------------ BoundedChatHistory

\* Python's s[start:] for a list s.
PySliceFrom(s, start) ==
    LET n  == Len(s)
        lo == IF start < 0
              THEN (IF n + start < 0 THEN 0 ELSE n + start)
              ELSE (IF start > n THEN n ELSE start)
    IN  SubSeq(s, lo + 1, n)

\* BoundedChatHistory.messages applied to a log.
\* Faulty variant of Window: the slice is taken even when k is None.
Window_AlwaysSliced(log) == PySliceFrom(log, (-k) * 2)

Window(log) ==
    IF k = KNone THEN log ELSE PySliceFrom(log, (-k) * 2)

messages == Window(all_messages)

\* Faulty variant of HasHumanMsgId: the key check is missing.
HasHumanMsgId_Unchecked(m) == TRUE

HasHumanMsgId(m) == m.kw # NoId

\* BoundedChatHistory.add_message: the log after the call (unchanged when
\* ValueError is raised).
\* Faulty variant of BoundedAdd: the store itself refuses a message whose
\* human message was cleared.
BoundedAdd_ChecksCleared(log, m) ==
    IF /\ HasHumanMsgId(m)
       /\ m.kw \notin cleared_msgs
       /\ turn_time[m.kw] > clear_time
    THEN Append(log, m) ELSE log

BoundedAdd(log, m) ==
    IF HasHumanMsgId(m) THEN Append(log, m) ELSE log

\* `if human_msg_ids:` -- None and the empty list are both falsy.
\* Faulty variant of Truthy: the test is "human_msg_ids is not None".
Truthy_NotNone(arg) == arg.given

Truthy(arg) == arg.given /\ arg.ids # {}

\* Faulty variant of RemoveCleared: the membership test inverted.
RemoveCleared_Inverted(log, ids) == SelectSeq(log, LAMBDA m : m.kw \in ids)

RemoveCleared(log, ids) == SelectSeq(log, LAMBDA m : m.kw \notin ids)

\* Faulty variant of SelectiveClear: the ids replace the invalidated set.
SelectiveClear_Overwrites(ids) ==
    /\ all_messages' = RemoveCleared(all_messages, ids)
    /\ cleared_msgs' = ids
    /\ UNCHANGED clear_time

\* Faulty variant of SelectiveClear: the reset time is stamped in both branches.
SelectiveClear_StampsTime(ids) ==
    /\ all_messages' = RemoveCleared(all_messages, ids)
    /\ cleared_msgs' = cleared_msgs \cup ids
    /\ clear_time' = now

SelectiveClear(ids) ==
    /\ all_messages' = RemoveCleared(all_messages, ids)
    /\ cleared_msgs' = cleared_msgs \cup ids
    /\ UNCHANGED clear_time

\* Faulty variant of FullClear: the invalidated set is not reset.
FullClear_KeepsInvalidated ==
    /\ all_messages' = << >>
    /\ UNCHANGED cleared_msgs
    /\ clear_time' = now

\* Faulty variant of FullClear: the stored messages survive the reset.
FullClear_KeepsLog ==
    /\ all_messages' = all_messages
    /\ cleared_msgs' = {}
    /\ clear_time' = now

\* Faulty variant of FullClear: clear_time is not moved.
FullClear_KeepsTime ==
    /\ all_messages' = << >>
    /\ cleared_msgs' = {}
    /\ UNCHANGED clear_time

FullClear ==
    /\ all_messages' = << >>
    /\ cleared_msgs' = {}
    /\ clear_time' = now

\* BoundedChatHistory.clear(human_msg_ids)
Clear(arg) ==
    /\ IF Truthy(arg) THEN SelectiveClear(arg.ids) ELSE FullClear
    /\ last' = Call("clear", 0,
                    IF ~Truthy(arg)
                    THEN (IF arg.given THEN "reset_empty_ids" ELSE "reset")
                    ELSE IF RemoveCleared(all_messages, arg.ids) # all_messages
                         THEN "removed" ELSE "kept")
    /\ UNCHANGED <<ychat, k, now, turn_time>>

\* ----------------------------------------------------- WrappedBoundedChatHistory

\* Faulty variants of IsLive, each a slip in the liveness condition.
IsLive_AtOrAfterReset(t) ==
    /\ turn_time[t] >= clear_time
    /\ t \notin cleared_msgs

IsLive_IgnoresReset(t) == t \notin cleared_msgs

IsLive_BeforeReset(t) ==
    /\ turn_time[t] < clear_time
    /\ t \notin cleared_msgs

IsLive_IgnoresCleared(t) == turn_time[t] > clear_time

IsLive(t) ==
    /\ turn_time[t] > clear_time
    /\ t \notin cleared_msgs

Tag(m, t) == [m EXCEPT !.kw = t]

\* WrappedBoundedChatHistory.add_message: the log after the call.
\* How WrappedBoundedChatHistory.add_message ends: it returns without a
\* call when the check fails, and otherwise ends as the store's add_message
\* does on the tagged message.
WrappedAddOutcome(t, m) ==
    IF IsLive(t)
    THEN (IF HasHumanMsgId(Tag(m, t)) THEN "committed" ELSE "ValueError")
    ELSE "discarded"

\* The message object the caller passed, after the call: it is tagged only
\* inside the if.
MessageAfterAdd(t, m) == IF IsLive(t) THEN Tag(m, t) ELSE m

\* Faulty variant of WrappedAdd: the message is tagged and handed to the
\* store without the check.
WrappedAdd_Unguarded(log, t, m) == BoundedAdd(log, Tag(m, t))

WrappedAdd(log, t, m) ==
    IF IsLive(t) THEN BoundedAdd(log, Tag(m, t)) ELSE log

\* Faulty variant of WrappedAddAll: only the first message of the batch is
\* handed to add_message.
WrappedAddAll_FirstOnly(log, t, ms) ==
    IF ms = << >> THEN log ELSE WrappedAdd(log, t, Head(ms))

\* add_messages: add_message for each message in turn.
RECURSIVE WrappedAddAll(_, _, _)
WrappedAddAll(log, t, ms) ==
    IF ms = << >> THEN log
    ELSE WrappedAddAll(WrappedAdd(log, t, Head(ms)), t, Tail(ms))

\* The replies handed to add_message: an AIMessage, with or without a
\* HUMAN_MSG_ID_KEY entry left from before.
Replies == [role : {"ai"}, kw : Ids \cup {NoId}]

\* The exchange a chain hands to aadd_messages: the input, then the reply.
Exchanges == { << [role |-> "human", kw |-> NoId], [role |-> "ai", kw |-> NoId] >> }

AddMessage(t, m) ==
    /\ turn_time[t] # 0
    /\ Len(WrappedAdd(all_messages, t, m)) <= MaxLog
    /\ all_messages' = WrappedAdd(all_messages, t, m)
    /\ last' = Call("add_message", t, WrappedAddOutcome(t, m))
    /\ UNCHANGED <<ychat, k, clear_time, cleared_msgs, now, turn_time>>

AddMessages(t, ms) ==
    /\ turn_time[t] # 0
    /\ Len(WrappedAddAll(all_messages, t, ms)) <= MaxLog
    /\ all_messages' = WrappedAddAll(all_messages, t, ms)
    /\ last' = Call("aadd_messages", t,
                    IF WrappedAddAll(all_messages, t, ms) # all_messages
                    THEN "committed" ELSE "discarded")
    /\ UNCHANGED <<ychat, k, clear_time, cleared_msgs, now, turn_time>>

\* WrappedBoundedChatHistory.clear
WrappedClear(t) ==
    /\ turn_time[t] # 0
    /\ FullClear
    /\ last' = Call("wrapped_clear", t,
                    IF IsLive(t) THEN "reset_by_live"
                    ELSE IF t \in cleared_msgs THEN "reset_by_cleared"
                         ELSE "reset_by_stale")
    /\ UNCHANGED <<ychat, k, now, turn_time>>

\* ------------------------------------------------------------------ environment

\* A human message is submitted: it gets the next unused id and the
\* current time.
Submit(t) ==
    /\ turn_time[t] = 0
    /\ \A u \in Ids : u < t => turn_time[u] # 0
    /\ turn_time' = [turn_time EXCEPT ![t] = now]
    /\ last' = Call("submit", t, "none")
    /\ UNCHANGED <<ychat, k, clear_time, cleared_msgs, all_messages, now>>

\* Time passes.
Tick ==
    /\ now < MaxTime
    /\ now' = now + 1
    /\ last' = Call("tick", 0, "none")
    /\ UNCHANGED <<ychat, k, clear_time, cleared_msgs, all_messages, turn_time>>

Init ==
    /\ ychat = << >>
    /\ k \in {KNone} \cup (0..MaxK)
    /\ clear_time = 0
    /\ cleared_msgs = {}
    /\ all_messages = << >>
    /\ now = 1
    /\ turn_time = [t \in Ids |-> 0]
    /\ last = Call("init", 0, "none")

Next ==
    \/ Tick
    \/ \E t \in Ids : Submit(t)
    \/ \E t \in Ids, m \in Replies : AddMessage(t, m)
    \/ \E t \in Ids, ms \in Exchanges : AddMessages(t, ms)
    \/ \E t \in Ids : WrappedClear(t)
    \/ \E arg \in ClearArgs : Clear(arg)

Spec == Init /\ [][Next]_vars

\* ------------------------------------------------- the store used directly

\* BoundedChatHistory.add_message called by any holder of the store, with a
\* message that may or may not carry HUMAN_MSG_ID_KEY; an id it carries is
\* the id of a human message that has been submitted.
StoreAdd(m) ==
    /\ m.kw \in Ids => turn_time[m.kw] # 0
    /\ Len(BoundedAdd(all_messages, m)) <= MaxLog
    /\ all_messages' = BoundedAdd(all_messages, m)
    /\ last' = Call("store_add", 0,
                    IF HasHumanMsgId(m) THEN "added" ELSE "ValueError")
    /\ UNCHANGED <<ychat, k, clear_time, cleared_msgs, now, turn_time>>

NextStore ==
    \/ Tick
    \/ \E t \in Ids : Submit(t)
    \/ \E t \in Ids, ms \in Exchanges : AddMessages(t, ms)
    \/ \E arg \in ClearArgs : Clear(arg)
    \/ \E m \in Replies : StoreAdd(m)

\* The store shared by wrapped runs that save their exchange and by callers
\* that use add_message and clear directly.
SpecStore == Init /\ [][NextStore]_vars

\* ------------------------------------------------------------ YChatHistory

BotUsername == "bot"                   \* BOT["username"]
Senders     == {BotUsername, "user"}
Bodies      == {"a", "b"}

\* A message of the YChat document, as ychat.get_messages() returns it.
YChatEntry == [sender : Senders, body : Bodies]

\* Python's clamping of a slice index i for a list of length n.
PyIndex(n, i) ==
    IF i < 0 THEN (IF n + i < 0 THEN 0 ELSE n + i)
    ELSE (IF i > n THEN n ELSE i)

\* Python's s[start:stop].
PySlice(s, start, stop) ==
    SubSeq(s, PyIndex(Len(s), start) + 1, PyIndex(Len(s), stop))

\* Faulty variant of StartIdx: the latest message is not accounted for.
StartIdx_Short(kk) == IF kk = KNone THEN 0 ELSE (-2) * kk

\* start_idx = 0 if self.k is None else -2 * self.k - 1
StartIdx(kk) == IF kk = KNone THEN 0 ELSE (-2) * kk - 1

\* AIMessage(content=body) for the bot, HumanMessage(content=body) otherwise.
ToBaseMessage(e) ==
    [role |-> IF e.sender = BotUsername THEN "ai" ELSE "human",
     content |-> e.body]

\* YChatHistory.messages
YChatMessages(log, kk) ==
    LET sl == PySlice(log, StartIdx(kk), -1)
    IN  [i \in 1..Len(sl) |-> ToBaseMessage(sl[i])]

\* A message is added to the YChat document by a user or by the bot.
YChatAppend(e) ==
    /\ Len(ychat) < MaxYLog
    /\ ychat' = Append(ychat, e)
    /\ last' = Call("ychat_append", 0, "none")
    /\ UNCHANGED <<k, clear_time, cleared_msgs, all_messages, now, turn_time>>

\* YChatHistory.messages is read; the call returns the list in last.ret.
YChatRead ==
    /\ last' = Call("ychat_messages", 0, YChatMessages(ychat, k))
    /\ UNCHANGED <<ychat, k, clear_time, cleared_msgs, all_messages,
                   now, turn_time>>

\* YChatHistory.add_message: returns at once.
YChatAddMessage ==
    /\ last' = Call("ychat_add_message", 0, "none")
    /\ UNCHANGED <<ychat, k, clear_time, cleared_msgs, all_messages,
                   now, turn_time>>

\* Faulty variant of YChatClear: the document is emptied without an error.
YChatClear_Empties ==
    /\ ychat' = << >>
    /\ last' = Call("ychat_clear", 0, "none")
    /\ UNCHANGED <<k, clear_time, cleared_msgs, all_messages, now, turn_time>>

\* YChatHistory.clear
YChatClear ==
    /\ last' = Call("ychat_clear", 0, "NotImplementedError")
    /\ UNCHANGED <<ychat, k, clear_time, cleared_msgs, all_messages,
                   now, turn_time>>

NextYChat ==
    \/ \E e \in YChatEntry : YChatAppend(e)
    \/ YChatRead
    \/ YChatAddMessage
    \/ YChatClear

\* A YChatHistory over a YChat document that grows.
SpecYChat == Init /\ [][NextYChat]_vars

\* ------------------------------------------- one saved exchange per request

\* WrappedBoundedChatHistory.aadd_messages as the chain calls it: once per
\* human message, with the human message and its reply.  The coroutine body
\* has no await, so the whole batch is one step.
SaveExchange(t, ms) ==
    /\ turn_time[t] # 0
    /\ \A i \in 1..Len(all_messages) : all_messages[i].kw # t
    /\ all_messages' = WrappedAddAll(all_messages, t, ms)
    /\ last' = Call("aadd_messages", t,
                    IF WrappedAddAll(all_messages, t, ms) # all_messages
                    THEN "committed" ELSE "discarded")
    /\ UNCHANGED <<ychat, k, clear_time, cleared_msgs, now, turn_time>>

NextExchange ==
    \/ Tick
    \/ \E t \in Ids : Submit(t)
    \/ \E t \in Ids, ms \in Exchanges : SaveExchange(t, ms)
    \/ \E t \in Ids : WrappedClear(t)
    \/ \E arg \in ClearArgs : Clear(arg)

\* Requests that each save their exchange once, interleaved with clears.
SpecExchange == Init /\ [][NextExchange]_vars

\* --------------------------------------------------- either kind of history

\* No method of the bounded store has been used and no time has passed.
StoreUnused ==
    /\ clear_time = 0
    /\ cleared_msgs = {}
    /\ all_messages = << >>
    /\ now = 1
    /\ turn_time = [t \in Ids |-> 0]

\* The two classes share no state.  A conversation is served by one of
\* them: the store's methods run while the YChat document is empty, and
\* the YChatHistory's while the store is unused.
NextHistories ==
    \/ ychat = << >> /\ Tick
    \/ ychat = << >> /\ \E t \in Ids : Submit(t)
    \/ ychat = << >> /\ \E t \in Ids, m \in Replies : AddMessage(t, m)
    \/ ychat = << >> /\ \E t \in Ids, ms \in Exchanges : AddMessages(t, ms)
    \/ ychat = << >> /\ \E t \in Ids : WrappedClear(t)
    \/ ychat = << >> /\ \E arg \in ClearArgs : Clear(arg)
    \/ StoreUnused /\ \E e \in YChatEntry : YChatAppend(e)
    \/ StoreUnused /\ YChatRead
    \/ StoreUnused /\ YChatAddMessage
    \/ StoreUnused /\ YChatClear

SpecHistories == Init /\ [][NextHistories]_vars

\* ====================================================================== claims

\* A step that is a full reset: clear() / clear(None) / clear([]) on the
\* store, or clear() on a wrapper.
FullResetStep ==
    /\ last'.op \in {"clear", "wrapped_clear"}
    /\ \/ \E arg \in ClearArgs : ~Truthy(arg) /\ Clear(arg)
       \/ \E t \in Ids : WrappedClear(t)

\* C1: WrappedBoundedChatHistory.add_message commits the message iff the
\* bound human message's time is strictly greater than clear_time and its id
\* is not in cleared_msgs; the committed message carries the bound id.
C1_CommitIffLive ==
    [][last'.op = "add_message" =>
          LET t == last'.turn IN
          IF turn_time[t] > clear_time /\ t \notin cleared_msgs
          THEN \E m \in Replies :
                  all_messages' = Append(all_messages, [role |-> m.role, kw |-> t])
          ELSE all_messages' = all_messages]_vars

\* C1 witness: a reply for a turn submitted exactly at the reset time (and
\* not selectively cleared) has just been discarded.
C1_Witness ==
    /\ last.op = "add_message"
    /\ last.ret = "discarded"
    /\ turn_time[last.turn] = clear_time
    /\ last.turn \notin cleared_msgs

\* C2: a reply for a turn submitted before the last full reset is discarded
\* and messages() is left as it was (empty after the reset).
C2_StaleReplyDiscarded ==
    [][(last'.op = "add_message" /\ turn_time[last'.turn] < clear_time) =>
          /\ all_messages' = all_messages
          /\ messages' = messages]_vars

\* C2 witness: the reply of a turn submitted strictly before the reset has
\* just been discarded and messages() is empty.
C2_Witness ==
    /\ last.op = "add_message"
    /\ last.ret = "discarded"
    /\ turn_time[last.turn] < clear_time
    /\ last.turn \notin cleared_msgs
    /\ messages = << >>

\* C3: after a full reset, the reply of a turn submitted strictly after the
\* reset (and not selectively cleared) is appended, and messages() is then
\* exactly that reply.
C3_NewTurnSurvives ==
    [][( /\ last'.op = "add_message"
         /\ clear_time > 0
         /\ all_messages = << >>
         /\ turn_time[last'.turn] > clear_time
         /\ last'.turn \notin cleared_msgs ) =>
          \E m \in Replies :
              messages' = << [role |-> m.role, kw |-> last'.turn] >>]_vars

\* C3 witness: a reset happened after an older turn was submitted, and the
\* reply of a newer turn has just been committed as the only message.
C3_Witness ==
    /\ last.op = "add_message"
    /\ last.ret = "committed"
    /\ clear_time > 0
    /\ turn_time[last.turn] > clear_time
    /\ \E u \in Ids : 0 < turn_time[u] /\ turn_time[u] < clear_time
    /\ Len(messages) = 1
    /\ messages[1].kw = last.turn

\* C4: once a turn's id is in cleared_msgs, add_message and aadd_messages
\* through its wrapper commit nothing; the decision reads the store's
\* current cleared_msgs.
C4_SelectiveClearObserved ==
    [][( /\ last'.op \in {"add_message", "aadd_messages"}
         /\ last'.turn \in cleared_msgs ) =>
          all_messages' = all_messages]_vars

\* C4 witness: a reply has just been discarded for a turn that is newer than
\* the last reset and was selectively cleared.
C4_Witness ==
    /\ last.op \in {"add_message", "aadd_messages"}
    /\ last.ret = "discarded"
    /\ last.turn \in cleared_msgs
    /\ turn_time[last.turn] > clear_time

\* No clear of either kind has happened yet.
NoClearYet == clear_time = 0 /\ cleared_msgs = {}

\* The log is a sequence of exchanges: a human message then its reply.
IsExchangeLog(log) ==
    /\ Len(log) % 2 = 0
    /\ \A i \in 1..Len(log) :
          IF i % 2 = 1
          THEN log[i].role = "human" /\ log[i + 1].kw = log[i].kw
          ELSE log[i].role = "ai"

\* C5: for every finite k >= 0 (k = 0 included), after N > k exchanges and
\* no clear, messages() is exactly the last 2k messages of the log, in order.
C5_Bounding ==
    ( /\ k # KNone
      /\ NoClearYet
      /\ IsExchangeLog(all_messages)
      /\ Len(all_messages) > 2 * k ) =>
        /\ Len(messages) = 2 * k
        /\ \A i \in 1..(2 * k) :
              messages[i] = all_messages[Len(all_messages) - 2 * k + i]

\* C6: with finite k, after clear(ids) messages() is the previous
\* messages() without the cleared turns' messages: nothing evicted comes back.
C6_EvictionPermanent ==
    [][\A arg \in ClearArgs :
          (last'.op = "clear" /\ Truthy(arg) /\ Clear(arg) /\ k # KNone) =>
              messages' = SelectSeq(messages, LAMBDA m : m.kw \notin arg.ids)]_vars

\* The positions of log whose message is not of a turn in ids.
Kept(log, ids) == {i \in 1..Len(log) : log[i].kw \notin ids}

\* The j-th smallest element of the set of positions S.
Nth(S, j) == CHOOSE i \in S : Cardinality({x \in S : x <= i}) = j

\* C7: clear(ids) with non-empty ids removes exactly the messages of the
\* turns in ids, keeps the others in their order, adds ids to cleared_msgs
\* and leaves clear_time unchanged.
C7_SelectiveClear ==
    [][\A arg \in ClearArgs :
          (last'.op = "clear" /\ Truthy(arg) /\ Clear(arg)) =>
              LET keep == Kept(all_messages, arg.ids) IN
              /\ all_messages' =
                    [j \in 1..Cardinality(keep) |-> all_messages[Nth(keep, j)]]
              /\ cleared_msgs' = cleared_msgs \cup arg.ids
              /\ clear_time' = clear_time]_vars

\* C7 witness: a selective clear has just removed some messages and kept
\* others.
C7_Witness ==
    /\ last.op = "clear"
    /\ last.ret = "removed"
    /\ all_messages # << >>
    /\ \A i \in 1..Len(all_messages) : all_messages[i].kw \notin cleared_msgs

\* C8: a full reset, on the store or through any wrapper, leaves messages()
\* empty, cleared_msgs empty and clear_time at the current time.
C8_FullReset ==
    [][FullResetStep =>
          /\ messages' = << >>
          /\ cleared_msgs' = {}
          /\ clear_time' = now']_vars

\* C8 witness: a full reset has just been made through the wrapper of a turn
\* that was no longer live.
C8_Witness ==
    /\ last.op = "wrapped_clear"
    /\ last.ret = "reset_by_stale"
    /\ clear_time = now
    /\ messages = << >>

\* C9 as stated: no operation ever removes an id from cleared_msgs.
C9_InvalidatedMonotonic ==
    [][cleared_msgs \subseteq cleared_msgs']_vars

\* C9 as amended: add_message, aadd_messages and a selective clear never
\* remove an id from cleared_msgs; only a full reset does, and it empties it.
C9_InvalidatedShrinksOnlyOnFullReset ==
    [][\/ cleared_msgs \subseteq cleared_msgs'
       \/ FullResetStep /\ cleared_msgs' = {}]_vars

\* C9 witness: a selective clear has just happened and cleared_msgs holds
\* two ids.
C9_Witness ==
    /\ last.op = "clear"
    /\ last.ret \in {"removed", "kept"}
    /\ Cardinality(cleared_msgs) >= 2

\* C10: clear_time never decreases; only a full reset changes it.
C10_ResetTimeMonotonic ==
    [][/\ clear_time' >= clear_time
       /\ clear_time' # clear_time => FullResetStep]_vars

\* C10 witness: a full reset has just moved clear_time past the first clock
\* reading.
C10_Witness ==
    /\ last.ret \in {"reset", "reset_by_live", "reset_by_stale"}
    /\ clear_time > 1

\* C11: BoundedChatHistory.add_message called with a message that has no
\* HUMAN_MSG_ID_KEY raises ValueError and leaves _all_messages, cleared_msgs
\* and clear_time unchanged; so every stored message carries an id.
C11_UntaggedRejected ==
    [][last'.op = "store_add" =>
          /\ \A m \in Replies :
                (m.kw = NoId /\ StoreAdd(m)) =>
                    /\ last'.ret = "ValueError"
                    /\ UNCHANGED <<all_messages, cleared_msgs, clear_time>>
          /\ \A i \in 1..Len(all_messages') : all_messages'[i].kw \in Ids]_vars

\* C11 witness: a direct add_message has just raised ValueError while the
\* log holds messages.
C11_Witness ==
    /\ last.op = "store_add"
    /\ last.ret = "ValueError"
    /\ all_messages # << >>
    /\ \A i \in 1..Len(all_messages) : all_messages[i].kw \in Ids

\* C12: YChatHistory.messages returns, for every document length n and
\* every k, the messages before the latest one, only the last 2k of them
\* when k is an integer (min(2k, n-1) messages, none when n <= 1), in
\* document order, as AIMessage when the sender is the bot and as
\* HumanMessage otherwise; the document is not modified.
C12_WindowedRead ==
    [][last'.op = "ychat_messages" =>
          LET n    == Len(ychat)
              prec == IF n = 0 THEN 0 ELSE n - 1
              cnt  == IF k = KNone \/ prec < 2 * k THEN prec ELSE 2 * k
              r    == last'.ret
          IN  /\ ychat' = ychat
              /\ Len(r) = cnt
              /\ \A i \in 1..cnt :
                    /\ r[i].content = ychat[prec - cnt + i].body
                    /\ r[i].role = "ai"
                          <=> ychat[prec - cnt + i].sender = BotUsername
                    /\ r[i].role \in {"ai", "human"}]_vars

\* C12 witness: a read with k = 1 of a document of four messages has
\* returned the second and third, one of the bot and one of a user.
C12_Witness ==
    /\ last.op = "ychat_messages"
    /\ k = 1
    /\ Len(ychat) = 4
    /\ Len(last.ret) = 2
    /\ last.ret[1].role = "human"
    /\ last.ret[2].role = "ai"
    /\ ychat[1].body # last.ret[1].content

\* C13: YChatHistory.clear always raises NotImplementedError and leaves the
\* YChat document as it was, whereas WrappedBoundedChatHistory.add_message
\* whose check fails returns without raising.
C13_ClearUnsupported ==
    [][/\ last'.op = "ychat_clear" =>
             /\ last'.ret = "NotImplementedError"
             /\ ychat' = ychat
       /\ ( /\ last'.op = "add_message"
            /\ ~(/\ turn_time[last'.turn] > clear_time
                 /\ last'.turn \notin cleared_msgs) ) =>
             last'.ret = "discarded"]_vars

\* C13 witness: clear has just raised on a YChatHistory whose document
\* holds messages.
C13_Witness ==
    /\ last.op = "ychat_clear"
    /\ last.ret = "NotImplementedError"
    /\ ychat # << >>

\* C14: with k = None, messages() is every message appended since the last
\* full reset and not removed by a selective clear, in insertion order: an
\* append adds the message at the end, a selective clear removes exactly the
\* messages of the cleared ids, a full reset empties the list, and no other
\* step changes it, whatever its length.
C14_UnboundedWindow ==
    [][k = KNone =>
          LET t == last'.turn IN
          CASE last'.op = "add_message" /\ last'.ret = "committed" ->
                 \E m \in Replies :
                    messages' = Append(messages, [role |-> m.role, kw |-> t])
            [] last'.op = "aadd_messages" /\ last'.ret = "committed" ->
                 messages' = messages \o << [role |-> "human", kw |-> t],
                                            [role |-> "ai", kw |-> t] >>
            [] last'.op = "clear" /\ last'.ret \in {"removed", "kept"} ->
                 messages' = SelectSeq(messages,
                                       LAMBDA m : m.kw \notin cleared_msgs')
            [] last'.op \in {"clear", "wrapped_clear"}
                  /\ last'.ret \notin {"removed", "kept"} ->
                 messages' = << >>
            [] OTHER -> messages' = messages]_vars

\* C14 witness: with k = None, after a full reset and a selective clear,
\* messages() holds as many messages as the log can: more than any finite
\* window of the model.
C14_Witness ==
    /\ k = KNone
    /\ clear_time > 0
    /\ cleared_msgs # {}
    /\ Len(messages) = MaxLog
    /\ Len(messages) > 2 * MaxK

\* Every stored message belongs to a human message whose time is strictly
\* greater than clear_time and whose id is not in cleared_msgs.
LogIsLive ==
    \A i \in 1..Len(all_messages) :
        /\ all_messages[i].kw \in Ids
        /\ turn_time[all_messages[i].kw] > clear_time
        /\ all_messages[i].kw \notin cleared_msgs

\* C15: under every interleaving of wrapped appends and clears, each stored
\* message belongs to a human message that is live (time > clear_time, id
\* not in cleared_msgs); and one wrapped append checks and commits in one
\* step: no clear changes clear_time or cleared_msgs inside it, so a
\* committed message was live at the check and is live at the commit.
C15_StoredMessagesLive ==
    [][/\ LogIsLive'
       /\ last'.op \in {"add_message", "aadd_messages"} =>
             /\ UNCHANGED <<clear_time, cleared_msgs>>
             /\ all_messages' # all_messages =>
                   /\ turn_time[last'.turn] > clear_time
                   /\ last'.turn \notin cleared_msgs]_vars

\* C15 witness: a reply has just been committed after both a full reset and
\* a selective clear of another human message took place.
C15_Witness ==
    /\ last.op = "add_message"
    /\ last.ret = "committed"
    /\ clear_time > 0
    /\ cleared_msgs # {}
    /\ LogIsLive

\* C16 (as stated): no direct call of BoundedChatHistory.add_message commits
\* a message of a human message that is in cleared_msgs or whose time is at
\* or before clear_time.
C16_NoBypass ==
    [][last'.op = "store_add" =>
          \A m \in Replies :
              ( /\ StoreAdd(m)
                /\ m.kw \in Ids
                /\ (m.kw \in cleared_msgs \/ turn_time[m.kw] <= clear_time) )
              => all_messages' = all_messages]_vars

\* C16 (amended): a direct call of BoundedChatHistory.add_message commits
\* the message iff it carries an id, whatever cleared_msgs and clear_time
\* say about that id, and changes neither of them.
C16_DirectAddChecksTagOnly ==
    [][last'.op = "store_add" =>
          \A m \in Replies :
              StoreAdd(m) =>
                 /\ IF m.kw \in Ids
                    THEN all_messages' = Append(all_messages, m)
                    ELSE all_messages' = all_messages
                 /\ UNCHANGED <<cleared_msgs, clear_time>>]_vars

\* C16 witness: a direct add_message has just stored a message whose human
\* message is in cleared_msgs.
C16_Witness ==
    /\ last.op = "store_add"
    /\ last.ret = "added"
    /\ all_messages # << >>
    /\ all_messages[Len(all_messages)].kw \in cleared_msgs

\* C17: WrappedBoundedChatHistory.add_message (alone or from aadd_messages)
\* whose check fails raises nothing and leaves _all_messages, cleared_msgs
\* and clear_time as they were, and the message it was given does not get
\* the human message id.
C17_DiscardIsNoOp ==
    [][( /\ last'.op \in {"add_message", "aadd_messages"}
         /\ ~(/\ turn_time[last'.turn] > clear_time
              /\ last'.turn \notin cleared_msgs) ) =>
          /\ last'.ret = "discarded"
          /\ UNCHANGED <<all_messages, cleared_msgs, clear_time>>
          /\ \A m \in Replies \cup {[role |-> "human", kw |-> NoId]} :
                MessageAfterAdd(last'.turn, m) = m]_vars

\* C17 witness: the reply of a selectively cleared human message has just
\* been discarded while the store holds the messages of another one.
C17_Witness ==
    /\ last.op = "add_message"
    /\ last.ret = "discarded"
    /\ last.turn \in cleared_msgs
    /\ turn_time[last.turn] > clear_time
    /\ all_messages # << >>
    /\ MessageAfterAdd(last.turn, [role |-> "ai", kw |-> NoId]).kw = NoId

\* C18: with a clock that never goes backward and human message times read
\* from it, a submitted human message that is not live (its id in
\* cleared_msgs, or its time at or before clear_time) is not live after any
\* step, a full reset that empties cleared_msgs included, and no message
\* of it is stored, so none appears in messages().
C18_InvalidationPermanent ==
    [][\A t \in Ids :
          ( /\ turn_time[t] # 0
            /\ ~(turn_time[t] > clear_time /\ t \notin cleared_msgs) ) =>
             /\ ~(turn_time'[t] > clear_time' /\ t \notin cleared_msgs')
             /\ \A i \in 1..Len(all_messages') : all_messages'[i].kw # t
             /\ \A i \in 1..Len(messages') : messages'[i].kw # t]_vars

\* C18 witness: a full reset has just emptied cleared_msgs, which held the
\* id of the human message of the wrapper that made it; that human message
\* is still not live.
C18_Witness ==
    /\ last.op = "wrapped_clear"
    /\ last.ret = "reset_by_cleared"
    /\ cleared_msgs = {}
    /\ turn_time[last.turn] <= clear_time

\* C19: BoundedChatHistory.clear([]) has the effect of clear(): whatever
\* the state, it empties _all_messages and cleared_msgs and sets clear_time
\* to the current time, exactly as a call without argument from the same
\* state would.
C19_EmptyListIsFullReset ==
    [][( /\ last'.op = "clear"
         /\ Clear([given |-> TRUE, ids |-> {}]) ) =>
          /\ all_messages' = << >>
          /\ cleared_msgs' = {}
          /\ clear_time' = now
          /\ ENABLED ( /\ Clear([given |-> FALSE, ids |-> {}])
                       /\ all_messages' = << >>
                       /\ cleared_msgs' = {}
                       /\ clear_time' = now )]_vars

\* C19 witness: clear([]) has just reset the store, at a clock reading
\* later than the first one.
C19_Witness ==
    /\ last.op = "clear"
    /\ last.ret = "reset_empty_ids"
    /\ all_messages = << >>
    /\ cleared_msgs = {}
    /\ clear_time = now
    /\ clear_time > 1

\* The positions of the stored messages tagged with human message t.
TaggedAt(t) == {i \in 1..Len(all_messages) : all_messages[i].kw = t}

\* C20: when every wrapper saves its exchange (human message, reply) by one
\* aadd_messages call, then between calls, under every interleaving with
\* selective clears and full resets, the store holds for each human message
\* either no message or exactly two, the human message followed by its
\* reply; never the human message alone.
C20_ExchangeAtomic ==
    \A t \in Ids :
        \/ TaggedAt(t) = {}
        \/ \E i \in 1..Len(all_messages) :
              /\ TaggedAt(t) = {i, i + 1}
              /\ i + 1 <= Len(all_messages)
              /\ all_messages[i].role = "human"
              /\ all_messages[i + 1].role = "ai"

\* C20 witness: two exchanges were saved and a selective clear has just
\* removed the first, after an earlier full reset; the other is whole.
C20_Witness ==
    /\ last.op = "clear"
    /\ last.ret = "removed"
    /\ clear_time > 0
    /\ Len(all_messages) = 2
    /\ \E t \in Ids : TaggedAt(t) = {1, 2} /\ t \notin cleared_msgs

====
